---- MODULE Spec2Model ----
(***************************************************************************)
(* Model of the RTTI transformer (packages/rtti/src/transformer): the flag *)
(* encoder, the type-reference serializer, the declaration metadata        *)
(* extractors, the import scan and the import synthesis, as one pass over  *)
(* a module's statement list.                                              *)
(*                                                                         *)
(* A string built by the code (a flag string) is a sequence of one-        *)
(* character strings; the empty string '' is << >>.  An entity name        *)
(* (A, A.m, A.m.n) is the sequence of its identifiers, root first.         *)
(***************************************************************************)
EXTENDS Naturals, Sequences, FiniteSets, TLC

VARIABLES
    moduleKind,             \* context.getCompilerOptions().module
    emitStandardMetadata,   \* program.getCompilerOptions().emitDecoratorMetadata, read once
    statements,             \* sourceFile.statements of the module being walked
    importMap,              \* Map<string,TypeImport>, in insertion order
    idx,                    \* position of the walk in the statement list
    pc,                     \* position of the transformer callback
    result,                 \* what the callback returned (NoResult while it has not)
    run,                    \* 1: first pass; 2: a second pass over the first one's output
    unitIn,                 \* input of a single function application
    unitOut                 \* its result

vars == << moduleKind, emitStandardMetadata, statements, importMap, idx, pc,
           result, run, unitIn, unitOut >>

\* ------------------------------------------------------------------ bounds

MaxStmts == 2       \* statements of an input module
MaxMods == 3        \* modifiers in a declaration's modifier list
MaxParams == 2      \* parameters of a method or constructor
MaxDepth == 2       \* nesting of array types
MaxFlagBits == 2    \* bits set in a checked type's flags

\* --------------------------------------------------------------- flag codes

F_PUBLIC == "$"
F_PROTECTED == "@"
F_PRIVATE == "#"
F_READONLY == "R"
F_ABSTRACT == "A"
F_PROPERTY == "P"
F_CLASS == "C"
F_METHOD == "M"
F_OPTIONAL == "?"

\* ----------------------------------------------------------------- flags.ts

\* A ts.ModifiersArray, or undefined (present = FALSE).
NoModifiers == [present |-> FALSE, list |-> << >>]
Modifiers(l) == [present |-> TRUE, list |-> l]

\* modifiers.some(x => x.kind === kind)
SomeKind(modifiers, kind) ==
    \E i \in 1..Len(modifiers.list) : modifiers.list[i] = kind

getVisibilityProtectedFirst(modifiers) ==
    IF modifiers.present
    THEN IF SomeKind(modifiers, "ProtectedKeyword") THEN << F_PROTECTED >>
         ELSE IF SomeKind(modifiers, "PrivateKeyword") THEN << F_PRIVATE >>
         ELSE << F_PUBLIC >>
    ELSE << F_PUBLIC >>

getVisibility(modifiers) ==
    IF modifiers.present
    THEN IF SomeKind(modifiers, "PublicKeyword") THEN << F_PUBLIC >>
         ELSE IF SomeKind(modifiers, "PrivateKeyword") THEN << F_PRIVATE >>
         ELSE IF SomeKind(modifiers, "ProtectedKeyword") THEN << F_PROTECTED >>
         ELSE << F_PUBLIC >>
    ELSE << F_PUBLIC >>

isReadOnly(modifiers) ==
    IF ~modifiers.present THEN << >>
    ELSE IF SomeKind(modifiers, "ReadonlyKeyword") THEN << F_READONLY >> ELSE << >>

isAbstract(modifiers) ==
    IF ~modifiers.present THEN << >>
    ELSE IF SomeKind(modifiers, "AbstractKeyword") THEN << F_ABSTRACT >> ELSE << >>

\* ------------------------------------------------------------- expressions

VoidZero == [e |-> "VoidZero"]
Identifier(text) == [e |-> "Identifier", text |-> text]
PropertyAccess(expression, name) ==
    [e |-> "PropertyAccess", expression |-> expression, name |-> name]
RequireCall(modulePath) == [e |-> "Call", callee |-> "require", arg |-> modulePath]
ArrayLiteral(element) == [e |-> "ArrayLiteral", element |-> element]

\* forwardRef(expr): () => expr
forwardRef(expr) == [e |-> "ArrowFunction", body |-> expr]

\* metadataDecorator(key, value)
metadataDecorator(key, value) == [key |-> key, value |-> value]

\* literalNode(node)
literalNode(node) == node

\* A computation that may throw: its value, the import-map keys it marked
\* referenced before returning or throwing, and whether it threw.
Ok(value, refs) == [threw |-> FALSE, value |-> value, refs |-> refs]
Throw(refs) == [threw |-> TRUE, value |-> VoidZero, refs |-> refs]

\* ------------------------------------------------------------------- utils

getRootNameOfEntityName(entityName) == entityName[1]

RECURSIVE cloneEntityNameAsExpr(_, _)
cloneEntityNameAsExpr(entityName, rootName) ==
    IF Len(entityName) = 1
    THEN Identifier(rootName)
    ELSE PropertyAccess(
            cloneEntityNameAsExpr(SubSeq(entityName, 1, Len(entityName) - 1), rootName),
            entityName[Len(entityName)])

\* --------------------------------------------------------------- import map

\* The suffix of a generated alias.
AliasSuffix == "Phi"

MapHas(map, key) == \E i \in 1..Len(map) : map[i].name = key
MapIndex(map, key) == CHOOSE i \in 1..Len(map) : map[i].name = key
MapGet(map, key) == map[MapIndex(map, key)]

\* Map.prototype.set: a key already present keeps its place in the order.
MapSet(map, key, rec) ==
    IF MapHas(map, key)
    THEN [map EXCEPT ![MapIndex(map, key)] = rec]
    ELSE Append(map, rec)

\* impo.referenced = true for every key in refs
MarkReferenced(map, refs) ==
    [i \in 1..Len(map) |->
        IF map[i].name \in refs THEN [map[i] EXCEPT !.referenced = TRUE] ELSE map[i]]

assureTypeAvailable(entityName, map) ==
    LET rootName == getRootNameOfEntityName(entityName) IN
    IF MapHas(map, rootName)
    THEN Ok(MapGet(map, rootName).localName, {rootName})
    ELSE Ok(rootName, {})

\* ------------------------------------------------------------- type nodes

AbsentType == [k |-> "absent"]
TypeReference(typeName) == [k |-> "TypeReference", typeName |-> typeName]
KeywordType(k) == [k |-> k]
ArrayType(elementType) == [k |-> "ArrayType", elementType |-> elementType]

\* createPropertyAccessExpression(inner, name), unless the inner call threw
PrependName(inner, name) ==
    IF inner.threw THEN inner ELSE Ok(PropertyAccess(inner.value, name), {})

RECURSIVE propertyPrepend(_, _)
propertyPrepend(expr, propAccess) ==
    IF propAccess.e = "Identifier"
    THEN Ok(PropertyAccess(expr, propAccess.text), {})
    ELSE IF propAccess.expression.e = "PropertyAccess"
    THEN PrependName(propertyPrepend(expr, propAccess.expression), propAccess.name)
    ELSE Throw({})

\* The expression of a type reference with the given root.
RefExpr(typeName, rootName) ==
    IF Len(typeName) = 1
    THEN Identifier(rootName)
    ELSE cloneEntityNameAsExpr(typeName, rootName)

\* impo.referenced = true was done before r was computed
WithRefs(r, refs) == [r EXCEPT !.refs = refs]

serializeTypeReference(typeNode, map, kind) ==
    IF kind = "CommonJS"
    THEN IF MapHas(map, getRootNameOfEntityName(typeNode.typeName))
         THEN IF ~MapGet(map, getRootNameOfEntityName(typeNode.typeName)).isNamespace
              THEN WithRefs(
                      propertyPrepend(
                          RequireCall(MapGet(map,
                              getRootNameOfEntityName(typeNode.typeName)).modulePath),
                          RefExpr(typeNode.typeName,
                                  getRootNameOfEntityName(typeNode.typeName))),
                      {getRootNameOfEntityName(typeNode.typeName)})
              ELSE Ok(RefExpr(typeNode.typeName,
                              assureTypeAvailable(typeNode.typeName, map).value),
                      {getRootNameOfEntityName(typeNode.typeName)})
         ELSE Ok(RefExpr(typeNode.typeName, getRootNameOfEntityName(typeNode.typeName)),
                 {})
    ELSE Ok(RefExpr(typeNode.typeName, assureTypeAvailable(typeNode.typeName, map).value),
            assureTypeAvailable(typeNode.typeName, map).refs)

serializeOtherLenient(typeNode, extended) ==
    Ok(Identifier("Object"), {})

serializeOther(typeNode, extended) ==
    IF extended THEN Throw({}) ELSE Ok(Identifier("Object"), {})

\* createArrayLiteralExpression([el]), unless serializing the element threw
ArrayOfElement(el) ==
    IF el.threw THEN el ELSE Ok(ArrayLiteral(el.value), el.refs)

RECURSIVE serializeTypeRef(_, _, _, _)
serializeTypeRef(typeNode, extended, map, kind) ==
    IF typeNode.k = "absent" THEN Ok(VoidZero, {})
    ELSE IF typeNode.k = "TypeReference" THEN serializeTypeReference(typeNode, map, kind)
    ELSE IF typeNode.k = "StringKeyword" THEN Ok(Identifier("String"), {})
    ELSE IF typeNode.k = "NumberKeyword" THEN Ok(Identifier("Number"), {})
    ELSE IF typeNode.k = "BooleanKeyword" THEN Ok(Identifier("Boolean"), {})
    ELSE IF typeNode.k = "BigIntKeyword" THEN Ok(Identifier("BigInt"), {})
    ELSE IF typeNode.k = "ArrayType"
    THEN IF extended
         THEN ArrayOfElement(serializeTypeRef(typeNode.elementType, TRUE, map, kind))
         ELSE Ok(Identifier("Array"), {})
    ELSE serializeOther(typeNode, extended)

\* ------------------------------------------------- declaration extractors

\* A declaration's nodes.
Parameter(name, type, modifiers, questionToken) ==
    [name |-> name, type |-> type, modifiers |-> modifiers,
     questionToken |-> questionToken]
Constructor(parameters) == [kind |-> "Constructor", parameters |-> parameters]
PropertyDeclaration(name, modifiers, type) ==
    [kind |-> "PropertyDeclaration", name |-> name, modifiers |-> modifiers,
     type |-> type, decorators |-> << >>]
\* returnFlags: the flags of the checked signature's return type.
MethodDeclaration(name, modifiers, parameters, type, returnFlags) ==
    [kind |-> "MethodDeclaration", name |-> name, modifiers |-> modifiers,
     parameters |-> parameters, type |-> type, returnFlags |-> returnFlags,
     decorators |-> << >>]
ClassDeclaration(name, modifiers, members) ==
    [kind |-> "ClassDeclaration", name |-> name, modifiers |-> modifiers,
     members |-> members, decorators |-> << >>]

\* The decorators of extractTypeMetadata, from the extended serialization ext
\* and (read only when emitStd) the coarse one std.
TypeDecorators(ext, std, standardName, emitStd) ==
    IF ext.threw THEN Throw(ext.refs)
    ELSE IF emitStd
    THEN IF std.threw THEN Throw(ext.refs \cup std.refs)
         ELSE Ok(<< metadataDecorator("rt:t", literalNode(forwardRef(ext.value))),
                    metadataDecorator("design:" \o standardName, literalNode(std.value)) >>,
                 ext.refs \cup std.refs)
    ELSE Ok(<< metadataDecorator("rt:t", literalNode(forwardRef(ext.value))) >>, ext.refs)

extractTypeMetadata(type, standardName, map, kind, emitStd) ==
    TypeDecorators(serializeTypeRef(type, TRUE, map, kind),
                   serializeTypeRef(type, FALSE, map, kind),
                   standardName, emitStd)

\* The codes one parameter modifier pushes.
ParamModifierCode(modifier) ==
    (IF modifier = "ReadonlyKeyword" THEN << F_READONLY >> ELSE << >>)
    \o (IF modifier = "PrivateKeyword" THEN << F_PRIVATE >> ELSE << >>)
    \o (IF modifier = "PublicKeyword" THEN << F_PUBLIC >> ELSE << >>)
    \o (IF modifier = "ProtectedKeyword" THEN << F_PROTECTED >> ELSE << >>)

RECURSIVE ParamModifierCodes(_)
ParamModifierCodes(list) ==
    IF list = << >> THEN << >>
    ELSE ParamModifierCode(Head(list)) \o ParamModifierCodes(Tail(list))

\* f: the codes pushed for one parameter.
ParamFlags(param) ==
    (IF param.modifiers.present THEN ParamModifierCodes(param.modifiers.list) ELSE << >>)
    \o (IF param.questionToken THEN << F_OPTIONAL >> ELSE << >>)

\* meta: { n, t } and, when f is not empty, f.
ParamMeta(param, t) ==
    IF Len(ParamFlags(param)) > 0
    THEN [n |-> param.name, t |-> literalNode(forwardRef(t)), f |-> ParamFlags(param)]
    ELSE [n |-> param.name, t |-> literalNode(forwardRef(t))]

PushFront(list, x) == << x >> \o list

\* serializedParamMeta.push(x), standardParamTypes.push(x)
Push(list, x) == Append(list, x)

RECURSIVE ParamsLoop(_, _, _, _, _, _, _)

\* One turn of the loop: expr is the coarse and t the extended serialization
\* of the parameter's type.
ParamsTurn(parameters, i, paramTypes, paramMeta, refs, map, kind, expr, t) ==
    IF expr.threw THEN Throw(refs \cup expr.refs)
    ELSE IF t.threw THEN Throw(refs \cup expr.refs \cup t.refs)
    ELSE ParamsLoop(parameters, i + 1,
                    Push(paramTypes, expr.value),
                    Push(paramMeta, literalNode(ParamMeta(parameters[i], t.value))),
                    refs \cup expr.refs \cup t.refs, map, kind)

\* The loop over method.parameters, from parameter i on.
ParamsLoop(parameters, i, standardParamTypes, serializedParamMeta, refs, map, kind) ==
    IF i > Len(parameters)
    THEN Ok([standardParamTypes |-> standardParamTypes,
             serializedParamMeta |-> serializedParamMeta], refs)
    ELSE ParamsTurn(parameters, i, standardParamTypes, serializedParamMeta, refs, map, kind,
                    serializeTypeRef(parameters[i].type, FALSE, map, kind),
                    serializeTypeRef(parameters[i].type, TRUE, map, kind))

\* The decorators extractParamsMetadata returns after the loop.
ParamsDecorators(loop, emitStd) ==
    IF loop.threw THEN Throw(loop.refs)
    ELSE IF emitStd
    THEN Ok(<< metadataDecorator("rt:p", loop.value.serializedParamMeta),
               metadataDecorator("design:paramtypes", loop.value.standardParamTypes) >>,
            loop.refs)
    ELSE Ok(<< metadataDecorator("rt:p", loop.value.serializedParamMeta) >>, loop.refs)

extractParamsMetadata(parameters, map, kind, emitStd) ==
    ParamsDecorators(ParamsLoop(parameters, 1, << >>, << >>, {}, map, kind), emitStd)

\* decs.push(d), unless computing decs threw
PushDecorator(decs, d) ==
    IF decs.threw THEN decs ELSE Ok(Append(decs.value, d), decs.refs)

\* klass.members.find(x => ts.isConstructorDeclaration(x))
HasConstructor(klass) ==
    \E i \in 1..Len(klass.members) : klass.members[i].kind = "Constructor"
FindConstructor(klass) ==
    klass.members[CHOOSE i \in 1..Len(klass.members) :
        /\ klass.members[i].kind = "Constructor"
        /\ \A j \in 1..(i - 1) : klass.members[j].kind # "Constructor"]

\* `${F_CLASS}${getVisibility(klass.modifiers)}${isAbstract(klass.modifiers)}`
ClassFlags(klass) ==
    << F_CLASS >> \o getVisibility(klass.modifiers) \o isAbstract(klass.modifiers)

\* `${F_PROPERTY}${getVisibility(property.modifiers)}${isReadOnly(property.modifiers)}`
PropertyFlags(property) ==
    << F_PROPERTY >> \o getVisibility(property.modifiers) \o isReadOnly(property.modifiers)

\* `${F_METHOD}${getVisibility(method.modifiers)}${isAbstract(method.modifiers)}`
MethodFlags(method) ==
    << F_METHOD >> \o getVisibility(method.modifiers) \o isAbstract(method.modifiers)

extractClassMetadata(klass, map, kind, emitStd) ==
    IF HasConstructor(klass)
    THEN PushDecorator(
            extractParamsMetadata(FindConstructor(klass).parameters, map, kind, emitStd),
            metadataDecorator("rt:f", ClassFlags(klass)))
    ELSE Ok(<< metadataDecorator("rt:f", ClassFlags(klass)) >>, {})

extractPropertyMetadata(property, map, kind, emitStd) ==
    PushDecorator(extractTypeMetadata(property.type, "type", map, kind, emitStd),
                  metadataDecorator("rt:f", PropertyFlags(property)))

typeToTypeRefStrict(flags) ==
    IF "String" \in flags THEN Ok(Identifier("String"), {})
    ELSE IF "Number" \in flags THEN Ok(Identifier("Number"), {})
    ELSE IF "Boolean" \in flags THEN Ok(Identifier("Boolean"), {})
    ELSE IF "Void" \in flags THEN Ok(VoidZero, {})
    ELSE IF "BigInt" \in flags THEN Ok(Identifier("BigInt"), {})
    ELSE IF "Object" \in flags THEN Ok(Identifier("Object"), {})
    ELSE Throw({})

\* flags: the set of ts.TypeFlags bits set in type.flags
typeToTypeRef(flags) ==
    IF "String" \in flags THEN Ok(Identifier("String"), {})
    ELSE IF "Number" \in flags THEN Ok(Identifier("Number"), {})
    ELSE IF "Boolean" \in flags THEN Ok(Identifier("Boolean"), {})
    ELSE IF "Void" \in flags THEN Ok(VoidZero, {})
    ELSE IF "BigInt" \in flags THEN Ok(Identifier("BigInt"), {})
    ELSE IF "Object" \in flags THEN Ok(Identifier("Object"), {})
    ELSE Ok(Identifier("Object"), {})

\* The explicit annotation: serializeTypeRef(method.type, true), then
\* extractTypeMetadata(method.type, 'returntype').
AnnotatedReturn(returnType, decs) ==
    IF returnType.threw THEN Throw(returnType.refs) ELSE decs

\* No annotation: the checked signature's return type, through typeToTypeRef.
InferredReturn(returnT, emitStd) ==
    IF returnT.threw THEN Throw({})
    ELSE IF emitStd
    THEN Ok(<< metadataDecorator("rt:t", literalNode(forwardRef(returnT.value))),
               metadataDecorator("design:returntype", literalNode(VoidZero)) >>, {})
    ELSE Ok(<< metadataDecorator("rt:t", literalNode(forwardRef(returnT.value))) >>, {})

\* The part of extractMethodMetadata after the flags: the return type.
MethodReturnMetadata(method, map, kind, emitStd) ==
    IF method.type.k # "absent"
    THEN AnnotatedReturn(serializeTypeRef(method.type, TRUE, map, kind),
                         extractTypeMetadata(method.type, "returntype", map, kind, emitStd))
    ELSE InferredReturn(typeToTypeRef(method.returnFlags), emitStd)

\* decs of extractMethodMetadata: head, the parameters' decorators, the flags,
\* the return type's decorators; the first of ps, ret to throw ends it.
MethodDecorators(head, ps, flags, ret) ==
    IF ps.threw THEN ps
    ELSE IF ret.threw THEN Throw(ps.refs \cup ret.refs)
    ELSE Ok(head \o ps.value \o << flags >> \o ret.value, ps.refs \cup ret.refs)

extractMethodMetadata(method, map, kind, emitStd) ==
    MethodDecorators(
        IF emitStd
        THEN << metadataDecorator("design:type", literalNode(Identifier("Function"))) >>
        ELSE << >>,
        extractParamsMetadata(method.parameters, map, kind, emitStd),
        metadataDecorator("rt:f", MethodFlags(method)),
        MethodReturnMetadata(method, map, kind, emitStd))

\* ------------------------------------------------------------ the visitor

\* rtHelper(): the runtime support declaration put at the top of the module.
rtHelper == [kind |-> "RtHelper"]

\* An import statement.  clause: "named" ({ a, b as c }), "namespace" (* as n)
\* or "none" (import 'x').  An element's propertyName is "" when it has no
\* 'as' rename.  syn = 0 for a statement of the input, and the run that made
\* it for a synthesized one (a node made by the factory is a new node).
ImportDeclaration(clause, elements, moduleSpecifier, syn) ==
    [kind |-> "ImportDeclaration", clause |-> clause, elements |-> elements,
     moduleSpecifier |-> moduleSpecifier, syn |-> syn]
ImportSpecifier(propertyName, name) == [propertyName |-> propertyName, name |-> name]

\* declare module 'm' { ... }: a statement whose body holds import statements
\* of its own, which are not statements of the source file.
ModuleDeclaration(body) == [kind |-> "ModuleDeclaration", body |-> body]

\* `${binding.propertyName?.text ?? binding.name.text}` and the suffix
LocalNameOf(binding) ==
    (IF binding.propertyName # "" THEN binding.propertyName ELSE binding.name)
    \o AliasSuffix

TypeImport(node, binding, isNamespace) ==
    [importDeclaration |-> node,
     refName |-> binding.name,
     modulePath |-> node.moduleSpecifier,
     isNamespace |-> isNamespace,
     referenced |-> FALSE,
     name |-> binding.name,
     localName |-> IF isNamespace THEN binding.name \o AliasSuffix
                   ELSE LocalNameOf(binding)]

\* for (let binding of bindings.elements) importMap.set(...), from element i on
RECURSIVE ScanBindings(_, _, _)
ScanBindings(node, i, map) ==
    IF i > Len(node.elements) THEN map
    ELSE ScanBindings(node, i + 1,
            MapSet(map, node.elements[i].name, TypeImport(node, node.elements[i], FALSE)))

\* The visitor's import branch.
ScanImport(node, map) ==
    IF node.clause = "named" THEN ScanBindings(node, 1, map)
    ELSE IF node.clause = "namespace"
    THEN MapSet(map, node.elements[1].name, TypeImport(node, node.elements[1], TRUE))
    ELSE map

\* ts.visitEachChild on a module declaration: the visitor takes each import
\* statement of its body, from statement i on.
RECURSIVE ScanBody(_, _, _)
ScanBody(body, i, map) ==
    IF i > Len(body) THEN map
    ELSE ScanBody(body, i + 1, ScanImport(body[i], map))

Decorate(node, decs) == [node EXCEPT !.decorators = node.decorators \o decs]

\* The visitor on one member of a class: the decorators it adds.
MemberMetadata(m, map, kind, emitStd) ==
    IF m.kind = "PropertyDeclaration" THEN extractPropertyMetadata(m, map, kind, emitStd)
    ELSE IF m.kind = "MethodDeclaration" THEN extractMethodMetadata(m, map, kind, emitStd)
    ELSE Ok(<< >>, {})

RECURSIVE VisitMembers(_, _, _, _, _, _, _)

\* One member visited, with r the decorators the visitor computed for it.
MemberVisited(members, i, done, refs, map, kind, emitStd, r) ==
    IF r.threw THEN Throw(refs \cup r.refs)
    ELSE VisitMembers(members, i + 1,
                      Append(done, IF members[i].kind = "Constructor" THEN members[i]
                                   ELSE Decorate(members[i], r.value)),
                      refs \cup r.refs, map, kind, emitStd)

\* ts.visitEachChild(klass, visitor, context), from member i on: the members
\* visited so far, the keys marked, and whether a member threw.
VisitMembers(members, i, done, refs, map, kind, emitStd) ==
    IF i > Len(members) THEN Ok(done, refs)
    ELSE MemberVisited(members, i, done, refs, map, kind, emitStd,
                       MemberMetadata(members[i], map, kind, emitStd))

\* The class with its decorators c and its visited members ms.
ClassUpdated(klass, c, ms) ==
    IF c.threw THEN c
    ELSE IF ms.threw THEN Throw(c.refs \cup ms.refs)
    ELSE Ok([Decorate(klass, c.value) EXCEPT !.members = ms.value], c.refs \cup ms.refs)

\* The visitor on a class declaration: the class, then its members.
VisitClassNode(klass, map, kind, emitStd) ==
    ClassUpdated(klass,
                 extractClassMetadata(klass, map, kind, emitStd),
                 VisitMembers(klass.members, 1, << >>, {}, map, kind, emitStd))

\* ------------------------------------------------------- generateImports

\* statements.indexOf(x), 1-based; 0 when x is not in the list
IndexOf(stmts, x) ==
    IF \E i \in 1..Len(stmts) : stmts[i] = x
    THEN CHOOSE i \in 1..Len(stmts) :
            /\ stmts[i] = x
            /\ \A j \in 1..(i - 1) : stmts[j] # x
    ELSE 0

SpliceAfter(stmts, i, x) ==
    SubSeq(stmts, 1, i) \o << x >> \o SubSeq(stmts, i + 1, Len(stmts))

\* statements.splice(i - 1, 0, x) for a 1-based i
Splice(stmts, i, x) ==
    SubSeq(stmts, 1, i - 1) \o << x >> \o SubSeq(stmts, i, Len(stmts))

OwnedImport(impo, syn) ==
    IF impo.isNamespace
    THEN ImportDeclaration("namespace", << ImportSpecifier("", impo.localName) >>,
                           impo.importDeclaration.moduleSpecifier, syn)
    ELSE ImportDeclaration("named", << ImportSpecifier(impo.refName, impo.localName) >>,
                           impo.importDeclaration.moduleSpecifier, syn)

\* for (let impo of importMap.values()) ..., from entry i on
RECURSIVE GenerateLoop(_, _, _, _, _)
GenerateLoop(stmts, map, i, kind, syn) ==
    IF i > Len(map) THEN stmts
    ELSE LET impo == map[i] IN
         IF ~impo.referenced THEN GenerateLoop(stmts, map, i + 1, kind, syn)
         ELSE IF kind = "CommonJS" /\ ~impo.isNamespace
         THEN GenerateLoop(stmts, map, i + 1, kind, syn)
         ELSE LET impoIndex == IndexOf(stmts, impo.importDeclaration) IN
              GenerateLoop(
                  IF impoIndex >= 1
                  THEN Splice(stmts, impoIndex, OwnedImport(impo, syn))
                  ELSE Splice(stmts, 1, OwnedImport(impo, syn)),
                  map, i + 1, kind, syn)

generateImports(stmts, map, kind, syn) == GenerateLoop(stmts, map, 1, kind, syn)

\* ------------------------------------------------------- the input modules

SeqsUpTo(S, n) == UNION {[1..k -> S] : k \in 0..n}

ModuleKinds == {"CommonJS", "ES2015"}
Names == {"A", "B"}
Paths == {"x", "y"}

\* { A }, { B }, { A as B }
ImportSpecifiers ==
    {ImportSpecifier("", n) : n \in Names} \cup {ImportSpecifier("A", "B")}

InputImports ==
    {ImportDeclaration("named", << s >>, p, 0) : s \in ImportSpecifiers, p \in Paths}
    \cup {ImportDeclaration("named", << st[1], st[2] >>, p, 0) :
            st \in {u \in ImportSpecifiers \X ImportSpecifiers : u[1].name # u[2].name},
            p \in Paths}
    \cup {ImportDeclaration("namespace", << ImportSpecifier("", n) >>, p, 0) :
            n \in Names, p \in Paths}
    \cup {ImportDeclaration("none", << >>, "x", 0)}

RefA == TypeReference(<< "A" >>)
RefB == TypeReference(<< "B" >>)
RefAm == TypeReference(<< "A", "m" >>)
UnionType == KeywordType("UnionType")
NumberType == KeywordType("NumberKeyword")

ModuleTypes == {RefA, RefB, RefAm, UnionType}

InputMembers ==
    {<< >>}
    \cup {<< PropertyDeclaration("p", NoModifiers, t) >> : t \in ModuleTypes}
    \cup {<< Constructor(<< Parameter("a", t, NoModifiers, FALSE) >>) >> : t \in ModuleTypes}
    \cup {<< MethodDeclaration("m", NoModifiers, << >>, t, {"Object"}) >> :
            t \in {RefA, AbsentType}}
    \cup {<< Constructor(<< Parameter("a", RefA, NoModifiers, FALSE) >>),
             PropertyDeclaration("p", NoModifiers, RefB) >>}

InputClasses == {ClassDeclaration("C", NoModifiers, ms) : ms \in InputMembers}

\* The module path of the imports inside module declarations: no import node
\* inside one equals a statement of the source file.
NestedPath == "z"

\* declare module 'm' { import { A } from 'z' }, { import * as A from 'z' },
\* { import { A, B } from 'z' }
InputModuleDeclarations ==
    {ModuleDeclaration(<< ImportDeclaration("named", << ImportSpecifier("", "A") >>,
                                            NestedPath, 0) >>),
     ModuleDeclaration(<< ImportDeclaration("namespace", << ImportSpecifier("", "A") >>,
                                            NestedPath, 0) >>),
     ModuleDeclaration(<< ImportDeclaration("named",
                              << ImportSpecifier("", "A"), ImportSpecifier("", "B") >>,
                              NestedPath, 0) >>)}

\* The local names the import statements of a module bind, in order.
RECURSIVE BoundNames(_)
BoundNames(stmts) ==
    IF stmts = << >> THEN << >>
    ELSE (IF Head(stmts).kind = "ImportDeclaration"
          THEN [i \in 1..Len(Head(stmts).elements) |-> Head(stmts).elements[i].name]
          ELSE << >>)
         \o BoundNames(Tail(stmts))

\* No two import bindings of a module declare the same local name (TS2300).
WellFormed(stmts) ==
    \A i, j \in 1..Len(BoundNames(stmts)) :
        i # j => BoundNames(stmts)[i] # BoundNames(stmts)[j]

InputModules ==
    {m \in SeqsUpTo(InputImports \cup InputClasses \cup InputModuleDeclarations,
                    MaxStmts) : WellFormed(m)}

\* ------------------------------------------------------------ the pass

NoResult == [returned |-> FALSE]
NoUnit == [op |-> "none"]

Init ==
    /\ moduleKind \in ModuleKinds
    /\ emitStandardMetadata \in BOOLEAN
    /\ statements \in InputModules
    /\ importMap = << >>
    /\ idx = 0
    /\ pc = "ready"
    /\ result = NoResult
    /\ run = 1
    /\ unitIn = NoUnit
    /\ unitOut = NoUnit

\* The callback is entered: the helper is put first, the map is new.
Start ==
    /\ pc = "ready"
    /\ statements' = << rtHelper >> \o statements
    /\ importMap' = << >>
    /\ idx' = 1
    /\ pc' = "walk"
    /\ UNCHANGED << moduleKind, emitStandardMetadata, result, run, unitIn, unitOut >>

Walking == pc = "walk" /\ idx <= Len(statements)

VisitImport ==
    /\ Walking
    /\ statements[idx].kind = "ImportDeclaration"
    /\ importMap' = ScanImport(statements[idx], importMap)
    /\ idx' = idx + 1
    /\ UNCHANGED << moduleKind, emitStandardMetadata, statements, pc, result, run,
                    unitIn, unitOut >>

\* The class at idx is replaced by the visited one.
ClassReplaced(r) ==
    /\ ~r.threw
    /\ statements' = [statements EXCEPT ![idx] = r.value]
    /\ importMap' = MarkReferenced(importMap, r.refs)
    /\ idx' = idx + 1
    /\ UNCHANGED << pc, result >>

ClassThrewPartial(r) ==
    /\ r.threw
    /\ importMap' = MarkReferenced(importMap, r.refs)
    /\ pc' = "failed"
    /\ result' = [returned |-> TRUE, statements |-> statements]
    /\ UNCHANGED << statements, idx >>

\* The error leaves the visitor, ts.visitNode and the callback: nothing is returned.
ClassThrew(r) ==
    /\ r.threw
    /\ importMap' = MarkReferenced(importMap, r.refs)
    /\ pc' = "failed"
    /\ UNCHANGED << statements, idx, result >>

VisitClass ==
    /\ Walking
    /\ statements[idx].kind = "ClassDeclaration"
    /\ ClassReplaced(VisitClassNode(statements[idx], importMap, moduleKind,
                                    emitStandardMetadata))
    /\ UNCHANGED << moduleKind, emitStandardMetadata, run, unitIn, unitOut >>

VisitClassThrows ==
    /\ Walking
    /\ statements[idx].kind = "ClassDeclaration"
    /\ ClassThrew(VisitClassNode(statements[idx], importMap, moduleKind,
                                 emitStandardMetadata))
    /\ UNCHANGED << moduleKind, emitStandardMetadata, run, unitIn, unitOut >>

\* The visitor passes a module declaration and walks its body.
VisitModuleDeclaration ==
    /\ Walking
    /\ statements[idx].kind = "ModuleDeclaration"
    /\ importMap' = ScanBody(statements[idx].body, 1, importMap)
    /\ idx' = idx + 1
    /\ UNCHANGED << moduleKind, emitStandardMetadata, statements, pc, result, run,
                    unitIn, unitOut >>

VisitOther ==
    /\ Walking
    /\ statements[idx].kind = "RtHelper"
    /\ idx' = idx + 1
    /\ UNCHANGED << moduleKind, emitStandardMetadata, statements, importMap, pc,
                    result, run, unitIn, unitOut >>

\* The walk is over: the imports are synthesized and the module is returned.
Generate ==
    /\ pc = "walk"
    /\ idx > Len(statements)
    /\ result' = [returned |-> TRUE,
                  statements |-> generateImports(statements, importMap, moduleKind, run)]
    /\ pc' = "done"
    /\ UNCHANGED << moduleKind, emitStandardMetadata, statements, importMap, idx, run,
                    unitIn, unitOut >>

\* The transformer is applied again, to the module it returned.
Rerun ==
    /\ pc = "done"
    /\ run = 1
    /\ statements' = result.statements
    /\ importMap' = << >>
    /\ idx' = 0
    /\ pc' = "ready"
    /\ result' = NoResult
    /\ run' = 2
    /\ UNCHANGED << moduleKind, emitStandardMetadata, unitIn, unitOut >>

Next ==
    \/ Start
    \/ VisitImport
    \/ VisitClass
    \/ VisitClassThrows
    \/ VisitModuleDeclaration
    \/ VisitOther
    \/ Generate
    \/ Rerun

Spec == Init /\ [][Next]_vars

\* ------------------------------------------- single function applications

DeclModifierKinds ==
    {"PublicKeyword", "PrivateKeyword", "ProtectedKeyword", "ReadonlyKeyword",
     "AbstractKeyword"}
ParamModifierKinds ==
    {"PublicKeyword", "PrivateKeyword", "ProtectedKeyword", "ReadonlyKeyword"}

\* Every modifier list of at most MaxMods modifiers, and the absent one.
ModifierLists(kinds) ==
    {NoModifiers} \cup {Modifiers(l) : l \in SeqsUpTo(kinds, MaxMods)}

StringType == KeywordType("StringKeyword")
BooleanType == KeywordType("BooleanKeyword")
BigIntType == KeywordType("BigIntKeyword")
UnsupportedTypes ==
    {UnionType, KeywordType("TupleType"), KeywordType("AnyKeyword"),
     KeywordType("FunctionType")}
BaseTypes ==
    {RefA, RefAm, TypeReference(<< "A", "m", "n" >>), TypeReference(<< "C" >>),
     StringType, NumberType, BooleanType, BigIntType}
    \cup UnsupportedTypes

\* The type nodes with at most d array brackets.
RECURSIVE TypesOfDepth(_)
TypesOfDepth(d) ==
    IF d = 0 THEN BaseTypes
    ELSE TypesOfDepth(d - 1) \cup {ArrayType(t) : t \in TypesOfDepth(d - 1)}

UnitTypes == {AbsentType} \cup TypesOfDepth(MaxDepth)

\* Import maps to serialize against: none, A a named import, A a namespace import.
UnitMaps ==
    {<< >>,
     ScanImport(ImportDeclaration("named", << ImportSpecifier("", "A") >>, "x", 0), << >>),
     ScanImport(ImportDeclaration("namespace", << ImportSpecifier("", "A") >>, "x", 0),
                << >>)}

ParamNames == {"a", "b"}
ParamTypes == {AbsentType, NumberType, UnionType}

\* One parameter with any modifier list; or up to MaxParams parameters with at
\* most one modifier each.
UnitParamLists ==
    {<< Parameter("a", NumberType, m, q) >> :
        m \in ModifierLists(ParamModifierKinds), q \in BOOLEAN}
    \cup SeqsUpTo({Parameter(n, t, m, q) :
                      n \in ParamNames, t \in ParamTypes,
                      m \in {NoModifiers, Modifiers(<< >>), Modifiers(<< "PrivateKeyword" >>)},
                      q \in BOOLEAN},
                  MaxParams)

TypeFlagNames ==
    {"String", "Number", "Boolean", "Void", "BigInt", "Object", "Any", "Undefined"}
ReturnFlagSets == {S \in SUBSET TypeFlagNames : Cardinality(S) <= MaxFlagBits}

UnitMethods ==
    {MethodDeclaration("m", m, << >>, NumberType, {}) :
        m \in ModifierLists(DeclModifierKinds)}
    \cup {MethodDeclaration("m", NoModifiers, ps, t, f) :
            ps \in {<< >>, << Parameter("a", NumberType, NoModifiers, FALSE) >>,
                    << Parameter("a", UnionType, NoModifiers, FALSE) >>},
            t \in {AbsentType, NumberType, UnionType},
            f \in ReturnFlagSets}

UnitProperties ==
    {PropertyDeclaration("p", m, t) :
        m \in ModifierLists(DeclModifierKinds), t \in {AbsentType, StringType, UnionType}}

UnitClasses ==
    {ClassDeclaration("C", m, << >>) : m \in ModifierLists(DeclModifierKinds)}
    \cup {ClassDeclaration("C", NoModifiers, << Constructor(ps) >>) :
            ps \in {<< >>, << Parameter("count", NumberType, NoModifiers, FALSE) >>,
                    << Parameter("a", NumberType, Modifiers(<< "PrivateKeyword" >>), TRUE),
                       Parameter("b", UnionType, NoModifiers, FALSE) >>}}

UnitInputs ==
    {[op |-> "flags", modifiers |-> m] : m \in ModifierLists(DeclModifierKinds)}
    \cup {[op |-> "serializeTypeRef", typeNode |-> t, extended |-> x, map |-> mp] :
            t \in UnitTypes, x \in BOOLEAN, mp \in UnitMaps}
    \cup {[op |-> "extractParamsMetadata", parameters |-> ps] : ps \in UnitParamLists}
    \cup {[op |-> "extractMethodMetadata", method |-> m] : m \in UnitMethods}
    \cup {[op |-> "extractPropertyMetadata", property |-> q] : q \in UnitProperties}
    \cup {[op |-> "extractClassMetadata", klass |-> c] : c \in UnitClasses}

InitUnit ==
    /\ moduleKind \in ModuleKinds
    /\ emitStandardMetadata \in BOOLEAN
    /\ statements = << >>
    /\ importMap = << >>
    /\ idx = 0
    /\ pc = "unit"
    /\ result = NoResult
    /\ run = 0
    /\ unitIn \in UnitInputs
    /\ unitOut = NoUnit

Applying(op) == pc = "unit" /\ unitOut = NoUnit /\ unitIn.op = op

Applied(out) ==
    /\ unitOut' = out
    /\ UNCHANGED << moduleKind, emitStandardMetadata, statements, importMap, idx, pc,
                    result, run, unitIn >>

ApplyFlags ==
    /\ Applying("flags")
    /\ Applied([op |-> "flags",
                visibility |-> getVisibility(unitIn.modifiers),
                readonly |-> isReadOnly(unitIn.modifiers),
                abstract |-> isAbstract(unitIn.modifiers)])

ApplySerializeTypeRef ==
    /\ Applying("serializeTypeRef")
    /\ Applied([op |-> "serializeTypeRef",
                r |-> serializeTypeRef(unitIn.typeNode, unitIn.extended, unitIn.map,
                                       moduleKind)])

ApplyExtractParamsMetadata ==
    /\ Applying("extractParamsMetadata")
    /\ Applied([op |-> "extractParamsMetadata",
                r |-> extractParamsMetadata(unitIn.parameters, << >>, moduleKind,
                                            emitStandardMetadata)])

ApplyExtractMethodMetadata ==
    /\ Applying("extractMethodMetadata")
    /\ Applied([op |-> "extractMethodMetadata",
                r |-> extractMethodMetadata(unitIn.method, << >>, moduleKind,
                                            emitStandardMetadata)])

ApplyExtractPropertyMetadata ==
    /\ Applying("extractPropertyMetadata")
    /\ Applied([op |-> "extractPropertyMetadata",
                r |-> extractPropertyMetadata(unitIn.property, << >>, moduleKind,
                                              emitStandardMetadata)])

ApplyExtractClassMetadata ==
    /\ Applying("extractClassMetadata")
    /\ Applied([op |-> "extractClassMetadata",
                r |-> extractClassMetadata(unitIn.klass, << >>, moduleKind,
                                           emitStandardMetadata)])

NextUnit ==
    \/ ApplyFlags
    \/ ApplySerializeTypeRef
    \/ ApplyExtractParamsMetadata
    \/ ApplyExtractMethodMetadata
    \/ ApplyExtractPropertyMetadata
    \/ ApplyExtractClassMetadata

SpecUnit == InitUnit /\ [][NextUnit]_vars

\* ------------------------------------------------------------- properties

\* The modifier kinds of a modifier list (none when the list is absent).
KindsOf(modifiers) ==
    IF modifiers.present THEN {modifiers.list[i] : i \in 1..Len(modifiers.list)} ELSE {}

VisibilityCodes == {F_PUBLIC, F_PRIVATE, F_PROTECTED}
KindCodes == {F_CLASS, F_PROPERTY, F_METHOD}

\* The value of the decorator of decs with the given key.
HasDecorator(decs, key) == \E i \in 1..Len(decs) : decs[i].key = key
DecoratorValue(decs, key) == decs[CHOOSE i \in 1..Len(decs) : decs[i].key = key].value

\* The declaration a unit application is about has these parameters.
UnitParameters ==
    IF unitIn.op = "extractParamsMetadata" THEN unitIn.parameters
    ELSE IF unitIn.op = "extractMethodMetadata" THEN unitIn.method.parameters
    ELSE IF unitIn.op = "extractClassMetadata" /\ HasConstructor(unitIn.klass)
    THEN FindConstructor(unitIn.klass).parameters
    ELSE << >>

\* A unit application returned decorators (it did not throw).
UnitDecorated ==
    /\ unitOut.op \in {"extractParamsMetadata", "extractMethodMetadata",
                       "extractPropertyMetadata", "extractClassMetadata"}
    /\ ~unitOut.r.threw

\* C10: for every modifier list (absent, empty, or any combination of public,
\* private, protected, readonly, abstract in any order) getVisibility returns
\* exactly one visibility code, chosen by the precedence public, then private,
\* then protected, then the default public; with no modifiers the result is
\* the default visibility code and neither the readonly nor the abstract code.
C10_VisibilityPrecedence ==
    unitOut.op = "flags" =>
        LET ks == KindsOf(unitIn.modifiers)
            v == unitOut.visibility
        IN  /\ Len(v) = 1
            /\ v[1] \in VisibilityCodes
            /\ "PublicKeyword" \in ks => v[1] = F_PUBLIC
            /\ ("PublicKeyword" \notin ks /\ "PrivateKeyword" \in ks) => v[1] = F_PRIVATE
            /\ ({"PublicKeyword", "PrivateKeyword"} \cap ks = {}
                    /\ "ProtectedKeyword" \in ks) => v[1] = F_PROTECTED
            /\ {"PublicKeyword", "PrivateKeyword", "ProtectedKeyword"} \cap ks = {}
                    => v[1] = F_PUBLIC
            /\ ks = {} => /\ unitOut.visibility = << F_PUBLIC >>
                          /\ unitOut.readonly = << >>
                          /\ unitOut.abstract = << >>

\* getVisibility was applied to a list holding protected before private, and
\* chose private.
C10_Witness ==
    /\ unitOut.op = "flags"
    /\ unitIn.modifiers.present
    /\ Len(unitIn.modifiers.list) >= 2
    /\ unitIn.modifiers.list[1] = "ProtectedKeyword"
    /\ unitIn.modifiers.list[2] = "PrivateKeyword"
    /\ unitOut.visibility = << F_PRIVATE >>

\* The flag strings among decorators: every rt:f value and every f field of a
\* parameter descriptor.
FlagStrings(decs) ==
    {decs[i].value : i \in {j \in 1..Len(decs) : decs[j].key = "rt:f"}}
    \cup UNION {
        {decs[i].value[k].f :
            k \in {n \in 1..Len(decs[i].value) : "f" \in DOMAIN decs[i].value[n]}} :
        i \in {j \in 1..Len(decs) : decs[j].key = "rt:p"}}

\* kind codes come first, then visibility codes, then the other codes
FlagRank(c) == IF c \in KindCodes THEN 1 ELSE IF c \in VisibilityCodes THEN 2 ELSE 3

FixedOrder(f) ==
    /\ Cardinality({i \in 1..Len(f) : f[i] \in VisibilityCodes}) <= 1
    /\ \A i, j \in 1..Len(f) : i < j => FlagRank(f[i]) <= FlagRank(f[j])

\* C9: every flag string emitted for any declaration kind, parameters
\* included, contains at most one visibility code and lists its codes in the
\* fixed order kind, visibility, other modifiers, whatever the order of the
\* modifiers in the declaration's modifier list.
C9_FlagOrder ==
    UnitDecorated => \A f \in FlagStrings(unitOut.r.value) : FixedOrder(f)

\* The flag strings of classes, properties and methods (through getVisibility)
\* do keep the fixed order.
C9_DeclarationFlagOrder ==
    UnitDecorated =>
        \A i \in 1..Len(unitOut.r.value) :
            unitOut.r.value[i].key = "rt:f" => FixedOrder(unitOut.r.value[i].value)

\* The expression the serializer gives for the parameter types of the inputs.
ExpectedParamType(type) ==
    IF type.k = "absent" THEN VoidZero
    ELSE IF type.k = "NumberKeyword" THEN Identifier("Number")
    ELSE Identifier("?")

\* C8: for every method or constructor, the emitted parameter-descriptor list
\* has exactly one descriptor per declared parameter, the descriptor at
\* position i carries the name and type of the i-th declared parameter, and a
\* parameter with no modifier and no optional marker has no flags field.
C8_ParamDescriptors ==
    (UnitDecorated /\ HasDecorator(unitOut.r.value, "rt:p")) =>
        LET metas == DecoratorValue(unitOut.r.value, "rt:p")
            ps == UnitParameters
        IN  /\ Len(metas) = Len(ps)
            /\ \A i \in 1..Len(ps) :
                /\ metas[i].n = ps[i].name
                /\ metas[i].t = forwardRef(ExpectedParamType(ps[i].type))
                /\ (KindsOf(ps[i].modifiers) = {} /\ ~ps[i].questionToken)
                        => "f" \notin DOMAIN metas[i]
                /\ "f" \in DOMAIN metas[i] => Len(metas[i].f) > 0

\* Two parameters of different names and types were described, the first
\* without modifiers or optional marker.
C8_Witness ==
    /\ unitOut.op = "extractParamsMetadata"
    /\ ~unitOut.r.threw
    /\ Len(unitIn.parameters) = 2
    /\ unitIn.parameters[1].name = "b"
    /\ unitIn.parameters[2].name = "a"
    /\ unitIn.parameters[1].type = NumberType
    /\ unitIn.parameters[2].type = AbsentType
    /\ unitIn.parameters[1].modifiers = Modifiers(<< >>)
    /\ ~unitIn.parameters[1].questionToken
    /\ unitIn.parameters[2].questionToken
    /\ Len(DecoratorValue(unitOut.r.value, "rt:p")) = 2

\* The table of typeToTypeRef for a checked type of one category.
ReturnTable(category) ==
    IF category = "String" THEN Identifier("String")
    ELSE IF category = "Number" THEN Identifier("Number")
    ELSE IF category = "Boolean" THEN Identifier("Boolean")
    ELSE IF category = "Void" THEN VoidZero
    ELSE IF category = "BigInt" THEN Identifier("BigInt")
    ELSE Identifier("Object")

\* C7: for a method with no explicit return-type annotation, computing the
\* return-type descriptor never raises (only a parameter's type can), and the
\* descriptor is the table entry of the inferred type's category: string,
\* number, boolean, void, bigint, and Object for every other category.
C7_InferredReturn ==
    (unitOut.op = "extractMethodMetadata" /\ unitIn.method.type.k = "absent") =>
        /\ unitOut.r.threw =>
              \E i \in 1..Len(unitIn.method.parameters) :
                  unitIn.method.parameters[i].type \in UnsupportedTypes
        /\ ~unitOut.r.threw =>
              /\ HasDecorator(unitOut.r.value, "rt:t")
              /\ \A c \in TypeFlagNames :
                    unitIn.method.returnFlags = {c} =>
                        DecoratorValue(unitOut.r.value, "rt:t") = forwardRef(ReturnTable(c))
              /\ unitIn.method.returnFlags
                        \cap {"String", "Number", "Boolean", "Void", "BigInt"} = {} =>
                    DecoratorValue(unitOut.r.value, "rt:t")
                        = forwardRef(Identifier("Object"))

\* A method without annotation and without parameters, whose inferred return
\* type is of an unrecognized category, got the Object descriptor.
C7_Witness ==
    /\ unitOut.op = "extractMethodMetadata"
    /\ unitIn.method.type.k = "absent"
    /\ unitIn.method.parameters = << >>
    /\ unitIn.method.returnFlags = {"Any"}
    /\ ~unitOut.r.threw
    /\ DecoratorValue(unitOut.r.value, "rt:t") = forwardRef(Identifier("Object"))

SupportedKinds ==
    {"absent", "TypeReference", "StringKeyword", "NumberKeyword", "BooleanKeyword",
     "BigIntKeyword", "ArrayType"}

\* The element type under all the array brackets of a type node.
RECURSIVE Innermost(_)
Innermost(t) == IF t.k = "ArrayType" THEN Innermost(t.elementType) ELSE t

\* C5: for every type node that is not absent, a type reference, a primitive
\* keyword or an array, serializeTypeRef raises in extended mode and returns
\* the identifier Object in coarse mode; an extended-mode array whose
\* innermost element type is such a shape raises too, and a coarse-mode array
\* is the identifier Array whatever its element type.
C5_UnsupportedShapes ==
    unitOut.op = "serializeTypeRef" =>
        LET t == unitIn.typeNode
            r == unitOut.r
        IN  /\ (t.k \notin SupportedKinds /\ unitIn.extended) => r.threw
            /\ (t.k \notin SupportedKinds /\ ~unitIn.extended) =>
                    (~r.threw /\ r.value = Identifier("Object"))
            /\ (t.k = "ArrayType" /\ unitIn.extended
                    /\ Innermost(t).k \notin SupportedKinds) => r.threw
            /\ (t.k = "ArrayType" /\ ~unitIn.extended) =>
                    (~r.threw /\ r.value = Identifier("Array"))

\* An array of arrays of a union type was serialized in extended mode, and raised.
C5_Witness ==
    /\ unitOut.op = "serializeTypeRef"
    /\ unitIn.extended
    /\ unitIn.typeNode = ArrayType(ArrayType(UnionType))
    /\ unitOut.r.threw

\* ------------------------------------------------ properties of the pass

InitES == Init /\ moduleKind = "ES2015"

\* The pass under a module kind other than CommonJS.
SpecES == InitES /\ [][Next]_vars

\* The type nodes a class declares: of its constructors' and methods'
\* parameters, of its properties, and its methods' return annotations.
TypesOfMember(m) ==
    IF m.kind = "PropertyDeclaration" THEN {m.type}
    ELSE {m.parameters[i].type : i \in 1..Len(m.parameters)}
         \cup (IF m.kind = "MethodDeclaration" THEN {m.type} ELSE {})

TypesOfClass(klass) ==
    UNION {TypesOfMember(klass.members[i]) : i \in 1..Len(klass.members)}

\* The root names of the type references a class declares.
RootsOfClass(klass) ==
    {getRootNameOfEntityName(Innermost(t).typeName) :
        t \in {u \in TypesOfClass(klass) : Innermost(u).k = "TypeReference"}}

\* The type expressions among decorators.
ExprsOfDecorators(decs) ==
    UNION {
        IF decs[i].key = "rt:t" THEN {decs[i].value.body}
        ELSE IF decs[i].key \in {"design:type", "design:returntype"} THEN {decs[i].value}
        ELSE IF decs[i].key = "rt:p"
        THEN {decs[i].value[k].t.body : k \in 1..Len(decs[i].value)}
        ELSE IF decs[i].key = "design:paramtypes"
        THEN {decs[i].value[k] : k \in 1..Len(decs[i].value)}
        ELSE {} :
        i \in 1..Len(decs)}

\* The type expressions emitted into the metadata of a class and its members.
ExprsOfClass(klass) ==
    ExprsOfDecorators(klass.decorators)
    \cup UNION {
        IF klass.members[i].kind = "Constructor" THEN {}
        ELSE ExprsOfDecorators(klass.members[i].decorators) :
        i \in 1..Len(klass.members)}

\* What an expression is rooted at: an identifier's text, or the require call.
RECURSIVE ExprRoot(_)
ExprRoot(expr) ==
    IF expr.e = "Identifier" THEN expr.text
    ELSE IF expr.e = "PropertyAccess" THEN ExprRoot(expr.expression)
    ELSE IF expr.e = "ArrayLiteral" THEN ExprRoot(expr.element)
    ELSE IF expr.e = "Call" THEN "require()"
    ELSE "void 0"

RootsEmitted(klass) == {ExprRoot(x) : x \in ExprsOfClass(klass)}

IsImport(stmt) == stmt.kind = "ImportDeclaration"
IsClass(stmt) == stmt.kind = "ClassDeclaration"

\* An import statement of the list binds the local name n, as a named binding.
BindsNamed(stmts, n) ==
    \E j \in 1..Len(stmts) :
        /\ IsImport(stmts[j])
        /\ stmts[j].clause = "named"
        /\ \E k \in 1..Len(stmts[j].elements) : stmts[j].elements[k].name = n

\* An import statement of the list binds the local name n.
Binds(stmts, n) ==
    \E j \in 1..Len(stmts) :
        /\ IsImport(stmts[j])
        /\ \E k \in 1..Len(stmts[j].elements) : stmts[j].elements[k].name = n

\* The synthesized imports of a list that bind alias to the module path.
AliasImports(stmts, alias, path) ==
    {i \in 1..Len(stmts) :
        /\ IsImport(stmts[i])
        /\ stmts[i].syn > 0
        /\ stmts[i].elements[1].name = alias
        /\ stmts[i].moduleSpecifier = path}

\* C1: for every type reference whose root name is an imported named binding,
\* after the module has been processed there is exactly one synthesized import
\* statement binding that record's alias to the binding's module path, and
\* every expression emitted into metadata for that binding is rooted at the
\* alias.
C1_OneAliasImport ==
    (pc = "done" /\ run = 1) =>
        \A i \in 1..Len(result.statements) :
            IsClass(result.statements[i]) =>
                \A root \in RootsOfClass(result.statements[i]) :
                    BindsNamed(statements, root) =>
                        /\ Cardinality(AliasImports(result.statements,
                                MapGet(importMap, root).localName,
                                MapGet(importMap, root).modulePath)) = 1
                        /\ root \notin RootsEmitted(result.statements[i])
                        /\ MapGet(importMap, root).localName
                                \in RootsEmitted(result.statements[i])

\* C2: the import scan is completed before any declaration is processed:
\* whenever the walk is about to resolve the type references of a declaration,
\* every import of the module that binds one of their roots, wherever it
\* stands in the statement list, already has its record in the import map.
C2_ScanBeforeDeclarations ==
    (Walking /\ IsClass(statements[idx])) =>
        \A root \in RootsOfClass(statements[idx]) :
            Binds(statements, root) => MapHas(importMap, root)

\* C3: no two distinct records of the import map have the same localName.
C3_UniqueLocalNames ==
    \A i, j \in 1..Len(importMap) :
        i # j => importMap[i].localName # importMap[j].localName

\* Two import statements import the same name under the same alias from the
\* same module.
SameImport(s, t) ==
    /\ s.clause = t.clause
    /\ s.elements = t.elements
    /\ s.moduleSpecifier = t.moduleSpecifier

\* C4: a second run of the pass on the module a first run returned adds no
\* second synthesized import for a named binding that already has one: no two
\* synthesized imports of the final module are the same import.
C4_RerunAddsNoSecondAlias ==
    (pc = "done" /\ run = 2) =>
        \A i, j \in 1..Len(result.statements) :
            (/\ i # j
             /\ IsImport(result.statements[i]) /\ result.statements[i].syn > 0
             /\ IsImport(result.statements[j]) /\ result.statements[j].syn > 0
             /\ result.statements[i].clause = "named")
            => ~SameImport(result.statements[i], result.statements[j])

\* C6: processing a module ends in one of two ways, a returned module or a
\* fatal error: a module is returned only when the walk and the import
\* synthesis completed, and when a declaration raised nothing is returned;
\* until then the walk stands at a statement the visitor takes, or at the end.
C6_TwoOutcomes ==
    /\ pc \in {"ready", "walk", "done", "failed"}
    /\ result.returned => pc = "done"
    /\ pc = "done" => result.returned
    /\ pc = "failed" => result = NoResult
    /\ pc = "walk" =>
          /\ idx \in 1..(Len(statements) + 1)
          /\ idx <= Len(statements) =>
                statements[idx].kind \in {"RtHelper", "ImportDeclaration",
                                          "ClassDeclaration", "ModuleDeclaration"}

\* A declaration raised after an earlier declaration had been given its
\* metadata, and nothing was returned.
C6_Witness ==
    /\ pc = "failed"
    /\ result = NoResult
    /\ idx = 3
    /\ IsClass(statements[2])
    /\ statements[2].decorators # << >>
    /\ IsClass(statements[3])

\* ------------------------------------------ properties of the CommonJS branch

\* The root of a type reference has a record of a named (non-namespace) import.
TrackedNamed(map, typeNode) ==
    /\ MapHas(map, getRootNameOfEntityName(typeNode.typeName))
    /\ ~MapGet(map, getRootNameOfEntityName(typeNode.typeName)).isNamespace

\* expr is a member-access path on require(path): require(path).a, .a.b, ...
RECURSIVE IsRequirePath(_, _)
IsRequirePath(expr, path) ==
    /\ expr.e = "PropertyAccess"
    /\ \/ expr.expression = RequireCall(path)
       \/ IsRequirePath(expr.expression, path)

\* The type references a class declares, under any array brackets.
ReferencesOfClass(klass) ==
    {Innermost(t) : t \in {u \in TypesOfClass(klass) : Innermost(u).k = "TypeReference"}}

\* The imports of a list that the given run synthesized.
SynthesizedBy(stmts, r) == {i \in 1..Len(stmts) : IsImport(stmts[i]) /\ stmts[i].syn = r}

\* C11: under the CommonJS module kind every type reference rooted at a tracked
\* named (non-namespace) import, a single identifier or a dotted name,
\* serializes without error to a member-access path on require(modulePath) of
\* the import's module path; and import synthesis adds no alias import for such
\* a record: every import it adds is the alias import of a referenced
\* namespace-import record.
C11_CommonJSNamedImports ==
    moduleKind = "CommonJS" =>
        /\ (Walking /\ IsClass(statements[idx])) =>
              \A t \in ReferencesOfClass(statements[idx]) :
                  TrackedNamed(importMap, t) =>
                      /\ ~serializeTypeRef(t, TRUE, importMap, moduleKind).threw
                      /\ IsRequirePath(
                            serializeTypeRef(t, TRUE, importMap, moduleKind).value,
                            MapGet(importMap,
                                   getRootNameOfEntityName(t.typeName)).modulePath)
        /\ pc = "done" =>
              \A i \in SynthesizedBy(result.statements, run) :
                  /\ result.statements[i].clause = "namespace"
                  /\ \E k \in 1..Len(importMap) :
                        /\ importMap[k].referenced
                        /\ importMap[k].isNamespace
                        /\ OwnedImport(importMap[k], run) = result.statements[i]

\* The part of C11 the code keeps: single identifiers, and the synthesis.
C11_SingleIdentifiers ==
    moduleKind = "CommonJS" =>
        /\ (Walking /\ IsClass(statements[idx])) =>
              \A t \in ReferencesOfClass(statements[idx]) :
                  (TrackedNamed(importMap, t) /\ Len(t.typeName) = 1) =>
                      /\ ~serializeTypeRef(t, TRUE, importMap, moduleKind).threw
                      /\ IsRequirePath(
                            serializeTypeRef(t, TRUE, importMap, moduleKind).value,
                            MapGet(importMap,
                                   getRootNameOfEntityName(t.typeName)).modulePath)
        /\ pc = "done" =>
              \A i \in SynthesizedBy(result.statements, run) :
                  result.statements[i].clause = "namespace"

\* ------------------------------------------ properties of import synthesis

\* A statement the given run synthesized.
IsSynthesizedBy(stmt, r) == IsImport(stmt) /\ stmt.syn = r

\* The list without the imports the given run synthesized.
RECURSIVE WithoutSynthesized(_, _)
WithoutSynthesized(stmts, r) ==
    IF stmts = << >> THEN << >>
    ELSE (IF IsSynthesizedBy(Head(stmts), r) THEN << >> ELSE << Head(stmts) >>)
         \o WithoutSynthesized(Tail(stmts), r)

\* The first position after i of a statement the run did not synthesize
\* (0 when there is none).
NextKept(stmts, i, r) ==
    IF \E j \in (i + 1)..Len(stmts) : ~IsSynthesizedBy(stmts[j], r)
    THEN CHOOSE j \in (i + 1)..Len(stmts) :
            /\ ~IsSynthesizedBy(stmts[j], r)
            /\ \A h \in (i + 1)..(j - 1) : IsSynthesizedBy(stmts[h], r)
    ELSE 0

\* The statement at i stands immediately before the record's original import
\* statement, or first in the list when the original is not in the list.
PlacedImmediatelyBefore(stmts, i, impo) ==
    IF IndexOf(stmts, impo.importDeclaration) > 0
    THEN IndexOf(stmts, impo.importDeclaration) = i + 1
    ELSE i = 1

\* The statement at i stands before the record's original import statement
\* with nothing but imports of the same run between them, or, when the original
\* is not in the list, in the run of synthesized imports that opens the list.
PlacedBefore(stmts, i, impo, r) ==
    IF IndexOf(stmts, impo.importDeclaration) > 0
    THEN NextKept(stmts, i, r) = IndexOf(stmts, impo.importDeclaration)
    ELSE \A h \in 1..i : IsSynthesizedBy(stmts[h], r)

\* Import synthesis added statements only for referenced records, one each at
\* most, and kept the statements it was given, in their order.
OnlyReferencedAndFrame ==
    /\ \A k \in 1..Len(importMap) :
          Cardinality({i \in SynthesizedBy(result.statements, run) :
                          result.statements[i] = OwnedImport(importMap[k], run)})
              <= (IF importMap[k].referenced THEN 1 ELSE 0)
    /\ WithoutSynthesized(result.statements, run) = statements

\* C12 as stated: import synthesis, after any walk, adds a statement only for
\* records whose referenced flag is set, places each synthesized import
\* immediately before that record's original import statement (or at index 0
\* when the original is not in the list), and leaves every original statement
\* present and in its original relative order.
C12_ImmediatelyBefore ==
    pc = "done" =>
        /\ OnlyReferencedAndFrame
        /\ \A i \in SynthesizedBy(result.statements, run) :
              \E k \in 1..Len(importMap) :
                  /\ importMap[k].referenced
                  /\ OwnedImport(importMap[k], run) = result.statements[i]
                  /\ PlacedImmediatelyBefore(result.statements, i, importMap[k])

\* C12, amended: import synthesis, after any walk, adds a statement only for
\* records whose referenced flag is set, inserts each synthesized import at the
\* position of that record's original import statement (or at index 0 when the
\* original is not in the list), so that in the returned list it stands before
\* the original with only other imports synthesized in the same run between
\* them (or in the run of synthesized imports that opens the list), and leaves
\* every original statement present and in its original relative order.
C12_BeforeOriginal ==
    pc = "done" =>
        /\ OnlyReferencedAndFrame
        /\ \A i \in SynthesizedBy(result.statements, run) :
              \E k \in 1..Len(importMap) :
                  /\ importMap[k].referenced
                  /\ OwnedImport(importMap[k], run) = result.statements[i]
                  /\ PlacedBefore(result.statements, i, importMap[k], run)

\* Both bindings of one import statement were referenced: the returned list
\* holds the first record's alias import, then the second's, then the original.
C12_Witness ==
    /\ pc = "done"
    /\ run = 1
    /\ \E i \in 1..(Len(result.statements) - 2) :
          /\ IsSynthesizedBy(result.statements[i], run)
          /\ IsSynthesizedBy(result.statements[i + 1], run)
          /\ result.statements[i + 2] \in InputImports
          /\ Len(importMap) = 2
          /\ result.statements[i] = OwnedImport(importMap[1], run)
          /\ result.statements[i + 1] = OwnedImport(importMap[2], run)
          /\ importMap[1].importDeclaration = result.statements[i + 2]
          /\ importMap[2].importDeclaration = result.statements[i + 2]

\* A record of an import inside a module declaration was referenced: its alias
\* import opens the returned list, before the runtime support declaration.
C12_FallbackWitness ==
    /\ pc = "done"
    /\ run = 1
    /\ Len(importMap) = 1
    /\ importMap[1].referenced
    /\ IndexOf(result.statements, importMap[1].importDeclaration) = 0
    /\ result.statements[1] = OwnedImport(importMap[1], run)
    /\ result.statements[2] = rtHelper

====
